---- MODULE Spec2Model ----
(***************************************************************************)
(* Zotfile-Doctor (zotfile_doctor.py): reconciliation of the attachment    *)
(* paths recorded in a Zotero database with the files of the zotfile       *)
(* directory, and the optional cleanup of that directory.                  *)
(*                                                                         *)
(* A Python str is a sequence of characters; a character is a one-letter   *)
(* string, except the three Unicode characters the model needs:            *)
(*   "Eacute" U+00C9, "eacute" U+00E9, "acute" U+0301 (combining).         *)
(* Paths are POSIX paths (os.path is posixpath).                           *)
(*                                                                         *)
(* The file system is a tree of regular files, directories and symbolic    *)
(* links to directories; every call is permitted (no EACCES), the database *)
(* opens and the query succeeds.  main is followed line by line: one step  *)
(* per row of the query result, per printed section, per os.remove and per *)
(* os.rmdir.                                                               *)
(***************************************************************************)
EXTENDS Integers, Sequences, FiniteSets, TLC

VARIABLES
    table,             \* rows of itemAttachments: [path, linkMode, contentType]
    files,             \* regular files of the file system (absolute paths)
    dirs,              \* directories of the file system (absolute paths)
    links,             \* symbolic links: [path, target]
    fsCaseSensitive,   \* does the file system holding the tree tell case apart?
    fsNormSensitive,   \* does it tell composed from decomposed characters apart?
    tmpCaseSensitive,  \* the same for the directory of temporary files
    clean,             \* the --clean flag
    pc,                \* position in main
    cache,             \* memo of is_fs_case_sensitive: "unset", "true", "false"
    db_d,              \* get_db_set: fetchall() result (the path column)
    i,                 \* get_db_set: loop index (1-based here)
    db_l,              \* get_db_set: list of keys
    db_set, dir_set, db_not_dir, dir_not_db,   \* main's sets
    out,               \* lines printed to standard output
    to_remove,         \* main: elements of dir_not_db the for loop has not reached
    todo,              \* remove_empty_dirs: <<root, dirname>> pairs still to visit
    exc                \* exception that ended the run, "none" if none

vars == <<table, files, dirs, links, fsCaseSensitive, fsNormSensitive,
          tmpCaseSensitive, clean,
          pc, cache, db_d, i, db_l, db_set, dir_set, db_not_dir, dir_not_db,
          out, to_remove, todo, exc>>

(***************************************************************************)
(* Bounds of the checked instances.                                        *)
(***************************************************************************)
MaxRows == 2
MaxFiles == 2

(***************************************************************************)
(* str methods.                                                            *)
(***************************************************************************)
LowerChar(c) ==
    CASE c = "F" -> "f"
      [] c = "P" -> "p"
      [] c = "D" -> "d"
      [] c = "E" -> "e"
      [] c = "Eacute" -> "eacute"
      [] OTHER -> c

\* str.lower()
Lower(s) == [n \in 1..Len(s) |-> LowerChar(s[n])]

NFDChar(c) ==
    CASE c = "Eacute" -> <<"E", "acute">>
      [] c = "eacute" -> <<"e", "acute">>
      [] OTHER -> <<c>>

RECURSIVE NFD(_)
\* unicodedata.normalize("NFD", s)
NFD(s) == IF s = <<>> THEN <<>> ELSE NFDChar(Head(s)) \o NFD(Tail(s))

\* s.startswith(p)
StartsWith(s, p) == Len(s) >= Len(p) /\ SubSeq(s, 1, Len(p)) = p

\* s.endswith(p)
EndsWith(s, p) ==
    Len(s) >= Len(p) /\ SubSeq(s, Len(s) - Len(p) + 1, Len(s)) = p

RECURSIVE Count(_, _)
\* s.count(sub), sub not empty: non-overlapping occurrences, left to right
Count(s, sub) ==
    IF Len(s) < Len(sub) THEN 0
    ELSE IF StartsWith(s, sub)
         THEN 1 + Count(SubSeq(s, Len(sub) + 1, Len(s)), sub)
         ELSE Count(Tail(s), sub)

RECURSIVE Remove(_, _)
\* s.replace(sub, ""), sub not empty
Remove(s, sub) ==
    IF Len(s) < Len(sub) THEN s
    ELSE IF StartsWith(s, sub)
         THEN Remove(SubSeq(s, Len(sub) + 1, Len(s)), sub)
         ELSE <<Head(s)>> \o Remove(Tail(s), sub)

RECURSIVE Split(_)
\* s.split("/")
Split(s) ==
    IF \A n \in 1..Len(s) : s[n] # "/" THEN <<s>>
    ELSE LET k == CHOOSE n \in 1..Len(s) :
                      s[n] = "/" /\ \A m \in 1..(n - 1) : s[m] # "/"
         IN  <<SubSeq(s, 1, k - 1)>> \o Split(SubSeq(s, k + 1, Len(s)))

RECURSIVE JoinSlash(_)
\* "/".join(comps)
JoinSlash(comps) ==
    IF comps = <<>> THEN <<>>
    ELSE IF Len(comps) = 1 THEN comps[1]
    ELSE comps[1] \o <<"/">> \o JoinSlash(Tail(comps))

\* code point, for the order of sorted()
CodePoint(c) ==
    CASE c = "." -> 46
      [] c = "/" -> 47
      [] c = ":" -> 58
      [] c = "D" -> 68
      [] c = "E" -> 69
      [] c = "F" -> 70
      [] c = "P" -> 80
      [] c = "a" -> 97
      [] c = "c" -> 99
      [] c = "d" -> 100
      [] c = "e" -> 101
      [] c = "f" -> 102
      [] c = "g" -> 103
      [] c = "h" -> 104
      [] c = "j" -> 106
      [] c = "k" -> 107
      [] c = "l" -> 108
      [] c = "m" -> 109
      [] c = "n" -> 110
      [] c = "o" -> 111
      [] c = "p" -> 112
      [] c = "s" -> 115
      [] c = "t" -> 116
      [] c = "u" -> 117
      [] c = "v" -> 118
      [] c = "w" -> 119
      [] c = "x" -> 120
      [] c = "z" -> 122
      [] c = "Eacute" -> 201
      [] c = "eacute" -> 233
      [] c = "acute" -> 769

RECURSIVE StrLess(_, _)
\* a < b on str
StrLess(a, b) ==
    IF a = <<>> THEN b # <<>>
    ELSE IF b = <<>> THEN FALSE
    ELSE IF Head(a) = Head(b) THEN StrLess(Tail(a), Tail(b))
    ELSE CodePoint(Head(a)) < CodePoint(Head(b))

RECURSIVE Sorted(_)
\* sorted(S) of a set of str
Sorted(S) ==
    IF S = {} THEN <<>>
    ELSE LET m == CHOOSE x \in S : \A y \in S \ {x} : StrLess(x, y)
         IN  <<m>> \o Sorted(S \ {m})

(***************************************************************************)
(* posixpath.                                                              *)
(***************************************************************************)
Dot == <<".">>
DotDot == <<".", ".">>

RECURSIVE NormComps(_, _, _)
\* the loop of posixpath.normpath over comps, new_comps being acc
NormComps(comps, acc, initial_slashes) ==
    IF comps = <<>> THEN acc
    ELSE LET comp == Head(comps)
             rest == Tail(comps)
         IN  IF comp = <<>> \/ comp = Dot
             THEN NormComps(rest, acc, initial_slashes)
             ELSE IF \/ comp # DotDot
                     \/ (initial_slashes = 0 /\ acc = <<>>)
                     \/ (acc # <<>> /\ acc[Len(acc)] = DotDot)
                  THEN NormComps(rest, Append(acc, comp), initial_slashes)
                  ELSE IF acc # <<>>
                       THEN NormComps(rest, SubSeq(acc, 1, Len(acc) - 1),
                                      initial_slashes)
                       ELSE NormComps(rest, acc, initial_slashes)

\* posixpath.normpath(path)
normpath(path) ==
    IF path = <<>> THEN Dot
    ELSE LET initial_slashes ==
                 IF ~StartsWith(path, <<"/">>) THEN 0
                 ELSE IF StartsWith(path, <<"/", "/">>)
                         /\ ~StartsWith(path, <<"/", "/", "/">>)
                      THEN 2 ELSE 1
             body == JoinSlash(NormComps(Split(path), <<>>, initial_slashes))
             res == [n \in 1..initial_slashes |-> "/"] \o body
         IN  IF res = <<>> THEN Dot ELSE res

\* posixpath.join(a, b)
join(a, b) ==
    IF StartsWith(b, <<"/">>) THEN b
    ELSE IF a = <<>> \/ EndsWith(a, <<"/">>) THEN a \o b
    ELSE a \o <<"/">> \o b

\* os.getcwd() of the run
Cwd == <<"/", "w">>

\* posixpath.abspath(path)
abspath(path) ==
    IF StartsWith(path, <<"/">>) THEN normpath(path)
    ELSE normpath(join(Cwd, path))

\* [x for x in s.split("/") if x]
NonEmptyComps(s) == SelectSeq(Split(s), LAMBDA x : x # <<>>)

RECURSIVE CommonLen(_, _)
\* len(commonprefix([a, b])) of two lists
CommonLen(a, b) ==
    IF a = <<>> \/ b = <<>> \/ Head(a) # Head(b) THEN 0
    ELSE 1 + CommonLen(Tail(a), Tail(b))

\* posixpath.relpath(path, start), path not empty
relpath(path, start) ==
    LET start_list == NonEmptyComps(abspath(start))
        path_list == NonEmptyComps(abspath(path))
        n == CommonLen(start_list, path_list)
        rel_list == [m \in 1..(Len(start_list) - n) |-> DotDot]
                    \o SubSeq(path_list, n + 1, Len(path_list))
    IN  IF rel_list = <<>> THEN Dot ELSE JoinSlash(rel_list)

\* os.path.dirname(p) of an absolute normalised path
dirname(p) ==
    LET comps == Split(p)
        h == JoinSlash(SubSeq(comps, 1, Len(comps) - 1))
    IN  IF h = <<>> THEN <<"/">> ELSE h


\* os.path.basename(p)
basename(p) == LET comps == Split(p) IN comps[Len(comps)]

(***************************************************************************)
(* The run's inputs: the zotfile directory d, the rows of the database,    *)
(* and the file system.                                                    *)
(***************************************************************************)
\* main's argument d, an absolute path
d == <<"/", "z">>

Str(s) == [kind |-> "str", val |-> s]
\* a NULL path column: fetchall() gives None
Null == [kind |-> "null", val |-> <<>>]

Marker == <<"a", "t", "t", "a", "c", "h", "m", "e", "n", "t", "s", ":">>
ExtPdf == <<".", "p", "d", "f">>
ExtDjvu == <<".", "d", "j", "v", "u">>

Pdf == "application/pdf"
Djvu == "application/djvu"
Html == "text/html"
DocTypes == {Pdf, Djvu}

Row(p, m, c) == [path |-> p, linkMode |-> m, contentType |-> c]

P_F == Marker \o <<"F", ".", "P", "D", "F">>                \* attachments:F.PDF
P_cez == Marker \o <<"c", "/", "e", "/", "z">> \o ExtPdf     \* attachments:c/e/z.pdf
P_E == Marker \o <<"Eacute">> \o ExtDjvu                     \* attachments:<U+00C9>.djvu
P_txt == Marker \o <<"c", "/", "n", ".", "t", "x", "t">>     \* attachments:c/n.txt
P_abs == d \o <<"/", "F", ".", "P", "D", "F">>               \* /z/F.PDF
P_out == <<"/", "o", "/", "x">> \o ExtPdf                    \* /o/x.pdf

\* the rows a table is drawn from
Records ==
    { Row(Str(P_F), 2, Pdf), Row(Str(P_F), 2, Html), Row(Str(P_F), 3, Html),
      Row(Str(P_F), 1, Pdf), Row(Str(P_abs), 3, Pdf), Row(Str(P_out), 3, Pdf),
      Row(Str(P_cez), 3, Pdf), Row(Str(P_E), 3, Djvu), Row(Str(P_txt), 2, Pdf),
      Row(Str(P_txt), 3, Html), Row(Null, 2, Pdf) }

RECURSIVE SeqsUpTo(_, _)
\* the sequences over S of length at most n
SeqsUpTo(S, n) ==
    IF n = 0 THEN {<<>>}
    ELSE LET shorter == SeqsUpTo(S, n - 1)
         IN  shorter \cup {Append(q, x) : q \in shorter, x \in S}

\* files that may lie in the zotfile directory
F_F == P_abs                                                \* /z/F.PDF
F_f == d \o <<"/", "f">> \o ExtPdf                           \* /z/f.pdf
F_cez == d \o <<"/", "c", "/", "e", "/", "z">> \o ExtPdf     \* /z/c/e/z.pdf
F_txt == d \o <<"/", "c", "/", "n", ".", "t", "x", "t">>     \* /z/c/n.txt
F_E == d \o <<"/", "Eacute">> \o ExtDjvu                     \* /z/<U+00C9>.djvu
FileUniverse == {F_F, F_f, F_cez, F_txt, F_E}

D_c == d \o <<"/", "c">>
D_ce == d \o <<"/", "c", "/", "e">>
D_k == d \o <<"/", "k">>
DirUniverse == {D_c, D_ce, D_k}

\* what lies outside the zotfile directory
D_o == <<"/", "o">>
D_om == <<"/", "o", "/", "m">>
F_ox == P_out
L_kl == D_k \o <<"/", "l">>
LinkUniverse == {[path |-> L_kl, target |-> D_om], [path |-> L_kl, target |-> D_o]}

RECURSIVE Ancestors(_)
\* the directories above p, up to and without "/"
Ancestors(p) ==
    LET h == dirname(p)
    IN  IF h = <<"/">> THEN {} ELSE {h} \cup Ancestors(h)

\* what the file system holding the tree compares names by
FsKey(cs, ns, p) ==
    LET q == IF ns THEN p ELSE NFD(p)
    IN  IF cs THEN q ELSE Lower(q)

\* a file system: every entry's directory exists, names are unique
WellFormed(cs, ns, fs, ds, ls) ==
    LET entries == fs \cup ds \cup {l.path : l \in ls}
    IN  /\ \A e \in entries : Ancestors(e) \subseteq ds
        /\ \A e1, e2 \in entries : FsKey(cs, ns, e1) = FsKey(cs, ns, e2) => e1 = e2
        /\ \A l1, l2 \in ls : l1.path = l2.path => l1 = l2
        /\ fs \cap ds = {}
        /\ \A l \in ls : l.path \notin fs \cup ds

\* the file systems with at most maxFiles files below d and at most one link
Worlds(maxFiles) ==
    { w \in [files : SUBSET FileUniverse, dirs : SUBSET DirUniverse,
             links : SUBSET LinkUniverse, cs : BOOLEAN, ns : BOOLEAN] :
        /\ Cardinality(w.files) <= maxFiles
        /\ Cardinality(w.links) <= 1
        /\ WellFormed(w.cs, w.ns, w.files, w.dirs \cup {d}, w.links) }

\* the file systems of the runs over every table of up to MaxRows rows
SampleWorlds ==
    { [files |-> {F_F, F_E}, dirs |-> DirUniverse,
       links |-> {[path |-> L_kl, target |-> D_om]}, cs |-> b, ns |-> TRUE] :
        b \in BOOLEAN }

\* the file systems of up to MaxFiles files, run over the tables of SampleTables
FsWorlds == Worlds(MaxFiles)

\* the tables of the runs over every file system of FsWorlds
SampleTables ==
    { <<>>, <<Row(Str(P_F), 2, Pdf)>>, <<Row(Str(P_cez), 3, Pdf)>>,
      <<Row(Str(P_F), 3, Html)>> }

InitWorld(w) ==
    /\ files = w.files \cup {F_ox}
    /\ dirs = w.dirs \cup {d, D_o, D_om}
    /\ links = w.links
    /\ fsCaseSensitive = w.cs
    /\ fsNormSensitive = w.ns

InitMain ==
    /\ pc = "get_db_set"
    /\ cache = "unset"
    /\ db_d = <<>>
    /\ i = 0
    /\ db_l = <<>>
    /\ db_set = {}
    /\ dir_set = {}
    /\ db_not_dir = {}
    /\ dir_not_db = {}
    /\ out = <<>>
    /\ to_remove = {}
    /\ todo = {}
    /\ exc = "none"

Init ==
    /\ \/ /\ \E w \in SampleWorlds : InitWorld(w)
          /\ table \in SeqsUpTo(Records, MaxRows)
       \/ /\ \E w \in FsWorlds : InitWorld(w)
          /\ table \in SampleTables
    /\ tmpCaseSensitive \in BOOLEAN
    /\ clean \in BOOLEAN
    /\ InitMain

(***************************************************************************)
(* is_fs_case_sensitive, memoised by functools.cache: a temporary file     *)
(* "TmP..." is created and the lower-cased name looked up, in the          *)
(* directory of temporary files.                                           *)
(***************************************************************************)
is_fs_case_sensitive ==
    IF cache = "unset" THEN tmpCaseSensitive ELSE cache = "true"

CacheAfterCall ==
    IF cache # "unset" THEN cache
    ELSE IF tmpCaseSensitive THEN "true" ELSE "false"

(***************************************************************************)
(* get_db_set.                                                             *)
(***************************************************************************)
\* SqlWhere with the content type forgotten
SqlWhere_AnyContent(r) == r.linkMode = 2 \/ r.linkMode = 3

\* the WHERE clause: AND binds tighter than OR
SqlWhere(r) ==
    \/ r.linkMode = 2
    \/ (r.linkMode = 3 /\ (r.contentType = Pdf \/ r.contentType = Djvu))

\* the rows the query returns, in table order
Selected(t) == SelectSeq(t, SqlWhere)

\* item.lower().endswith(".pdf") or item.lower().endswith(".djvu")
HasDocExt(item) ==
    EndsWith(Lower(item), ExtPdf) \/ EndsWith(Lower(item), ExtDjvu)

\* lines 50-53: the path relative to d
Relative(item) ==
    IF Count(item, Marker) > 0 THEN Remove(item, Marker)
    ELSE relpath(item, d)

\* lines 50-60 on a str item that passed line 48: the key appended to db_l
DbKey(item, cs) ==
    LET rel == Relative(item)
        folded == IF ~cs THEN Lower(rel) ELSE rel
    IN  NFD(normpath(folded))

\* line 56, "except _:" with _ bound to the row by the for statement: the
\* clause is evaluated once the body has raised; a tuple holding a str or None
\* is no exception class, and matching against it raises TypeError
ExceptClause(row) == "TypeError"

\* one pass of the loop body on db_d[i]: what it does
RowOutcome(item, cs) ==
    IF item.kind # "str"
    THEN [kind |-> "raise", key |-> <<>>, exc |-> ExceptClause(<<item>>)]
    ELSE IF ~HasDocExt(item.val)
         THEN [kind |-> "continue", key |-> <<>>, exc |-> "none"]
         ELSE [kind |-> "append", key |-> DbKey(item.val, cs), exc |-> "none"]

\* lines 36-43
DbQuery ==
    /\ pc = "get_db_set"
    /\ db_d' = [n \in 1..Len(Selected(table)) |-> Selected(table)[n].path]
    /\ db_l' = <<>>
    /\ i' = 1
    /\ pc' = "db_loop"
    /\ UNCHANGED <<table, files, dirs, links, fsCaseSensitive, fsNormSensitive,
                   tmpCaseSensitive,
                   clean, cache, db_set, dir_set, db_not_dir, dir_not_db, out,
                   to_remove, todo, exc>>

\* lines 44-60, one row
DbRow ==
    /\ pc = "db_loop"
    /\ i <= Len(db_d)
    /\ LET o == RowOutcome(db_d[i], is_fs_case_sensitive)
       IN  /\ pc' = IF o.kind = "raise" THEN "raised" ELSE pc
           /\ exc' = o.exc
           /\ i' = IF o.kind = "raise" THEN i ELSE i + 1
           /\ db_l' = IF o.kind = "append" THEN Append(db_l, o.key) ELSE db_l
           /\ cache' = IF o.kind = "append" THEN CacheAfterCall ELSE cache
    /\ UNCHANGED <<table, files, dirs, links, fsCaseSensitive, fsNormSensitive,
                   tmpCaseSensitive,
                   clean, db_d, db_set, dir_set, db_not_dir, dir_not_db, out,
                   to_remove, todo>>

\* lines 62-63 and 90
DbReturn ==
    /\ pc = "db_loop"
    /\ i > Len(db_d)
    /\ db_set' = {db_l[n] : n \in 1..Len(db_l)}
    /\ pc' = "get_dir_set"
    /\ UNCHANGED <<table, files, dirs, links, fsCaseSensitive, fsNormSensitive,
                   tmpCaseSensitive,
                   clean, cache, db_d, i, db_l, dir_set, db_not_dir, dir_not_db,
                   out, to_remove, todo, exc>>

(***************************************************************************)
(* get_dir_set.                                                            *)
(***************************************************************************)
\* is p strictly below the directory top?
Below(p, top) == StartsWith(p, top \o <<"/">>)

\* a symbolic link os.walk lists among the directories (it does not enter it)
IsDirLink(l) == l.target \in dirs

\* os.walk(top): the filenames it reports, joined to their roots
WalkFiles(top) ==
    {f \in files : Below(f, top)}
        \cup {l.path : l \in {x \in links : Below(x.path, top) /\ ~IsDirLink(x)}}

\* rule.match(name), rule = "(?s:.*\.(pdf|djvu))\Z", re.IGNORECASE
RuleMatch(name) ==
    EndsWith(Lower(name), ExtPdf) \/ EndsWith(Lower(name), ExtDjvu)

\* lines 73-75 on one match
DirKey(f) == normpath(Lower(NFD(relpath(f, d))))

\* lines 66-77 and 91
GetDirSet ==
    /\ pc = "get_dir_set"
    /\ dir_set' = {DirKey(f) : f \in {m \in WalkFiles(d) : RuleMatch(basename(m))}}
    /\ pc' = "difference"
    /\ UNCHANGED <<table, files, dirs, links, fsCaseSensitive, fsNormSensitive,
                   tmpCaseSensitive,
                   clean, cache, db_d, i, db_l, db_set, db_not_dir, dir_not_db,
                   out, to_remove, todo, exc>>


(***************************************************************************)
(* The file system calls of the cleanup.                                   *)
(***************************************************************************)
\* the entries (files, directories, links) lying directly in directory p
Children(p) ==
    {e \in files \cup dirs \cup {l.path : l \in links} : dirname(e) = p}

\* do paths p and q name the same entry on this file system?
SameName(p, q) ==
    FsKey(fsCaseSensitive, fsNormSensitive, p)
        = FsKey(fsCaseSensitive, fsNormSensitive, q)

\* the links whose path is a proper prefix of p, component by component, or
\* (when final) the whole of p
LinksOn(p, final) ==
    LET pcs == Split(p)
    IN  {l \in links :
            LET lcs == Split(l.path)
            IN  /\ Len(pcs) > Len(lcs) \/ (final /\ Len(pcs) = Len(lcs))
                /\ Len(pcs) >= Len(lcs)
                /\ \A n \in 1..Len(lcs) : SameName(pcs[n], lcs[n])}

\* p with the symbolic link it runs through replaced by the link's target;
\* the link p ends at is followed only when final
Follow(p, final) ==
    IF LinksOn(p, final) = {} THEN p
    ELSE LET l == CHOOSE x \in LinksOn(p, final) : TRUE
             pcs == Split(p)
             rest == SubSeq(pcs, Len(Split(l.path)) + 1, Len(pcs))
         IN  IF rest = <<>> THEN l.target
             ELSE l.target \o <<"/">> \o JoinSlash(rest)

\* os.path.realpath(p)
realpath(p) == Follow(p, TRUE)

\* os.remove(p): the file or link it unlinks, {} when it raises
RemoveTargets(p) ==
    LET q == Follow(p, FALSE)
    IN  {e \in files \cup {l.path : l \in links} : SameName(e, q)}

\* the exception of an os.remove(p) that unlinks nothing
RemoveError(p) ==
    IF \E x \in dirs : SameName(x, Follow(p, FALSE))
    THEN "IsADirectoryError" ELSE "FileNotFoundError"

\* is directory p empty?
IsEmptyDir(p) == Children(p) = {}

\* os.rmdir(p): the directories it removes, {} when it raises OSError
RmdirTargets(p) == {x \in dirs : SameName(x, p) /\ IsEmptyDir(x)}

(***************************************************************************)
(* main.                                                                   *)
(***************************************************************************)
\* difference taken both ways
difference_Symmetric(a, b) == (a \ b) \cup (b \ a)

\* a.difference(b)
difference(a, b) == a \ b

\* lines 93-94
Difference ==
    /\ pc = "difference"
    /\ db_not_dir' = difference(db_set, dir_set)
    /\ dir_not_db' = difference(dir_set, db_set)
    /\ pc' = "print_db_not_dir"
    /\ UNCHANGED <<table, files, dirs, links, fsCaseSensitive, fsNormSensitive,
                   tmpCaseSensitive,
                   clean, cache, db_d, i, db_l, db_set, dir_set, out, to_remove,
                   todo, exc>>

Header(k, n, total) == [kind |-> k, n |-> n, total |-> total, path |-> <<>>]
PathLine(f) == [kind |-> "path", n |-> 0, total |-> 0, path |-> f]

\* the lines of one section of the report
Section(k, part, whole) ==
    LET sorted == Sorted(part)
    IN  <<Header(k, Cardinality(part), Cardinality(whole))>>
            \o [n \in 1..Len(sorted) |-> PathLine(sorted[n])]

\* lines 96-100
PrintDbNotDir ==
    /\ pc = "print_db_not_dir"
    /\ out' = out \o Section("db_not_dir", db_not_dir, db_set)
    /\ pc' = "print_dir_not_db"
    /\ UNCHANGED <<table, files, dirs, links, fsCaseSensitive, fsNormSensitive,
                   tmpCaseSensitive,
                   clean, cache, db_d, i, db_l, db_set, dir_set, db_not_dir,
                   dir_not_db, to_remove, todo, exc>>

\* lines 101-105
PrintDirNotDb ==
    /\ pc = "print_dir_not_db"
    /\ out' = out \o Section("dir_not_db", dir_not_db, dir_set)
    /\ pc' = "if_clean"
    /\ UNCHANGED <<table, files, dirs, links, fsCaseSensitive, fsNormSensitive,
                   tmpCaseSensitive,
                   clean, cache, db_d, i, db_l, db_set, dir_set, db_not_dir,
                   dir_not_db, to_remove, todo, exc>>

\* CleanCondition without the flag
CleanCondition_NoFlag == Cardinality(dir_not_db) > 0

\* line 107
CleanCondition == clean /\ Cardinality(dir_not_db) > 0

\* line 107, condition false: main returns
SkipClean ==
    /\ pc = "if_clean"
    /\ ~CleanCondition
    /\ pc' = "done"
    /\ UNCHANGED <<table, files, dirs, links, fsCaseSensitive, fsNormSensitive,
                   tmpCaseSensitive,
                   clean, cache, db_d, i, db_l, db_set, dir_set, db_not_dir,
                   dir_not_db, out, to_remove, todo, exc>>

\* lines 107-108, condition true: the for loop starts
StartClean ==
    /\ pc = "if_clean"
    /\ CleanCondition
    /\ to_remove' = dir_not_db
    /\ pc' = "remove_files"
    /\ UNCHANGED <<table, files, dirs, links, fsCaseSensitive, fsNormSensitive,
                   tmpCaseSensitive,
                   clean, cache, db_d, i, db_l, db_set, dir_set, db_not_dir,
                   dir_not_db, out, todo, exc>>

\* lines 108-109, one element of dir_not_db (a set: in any order)
RemoveFile ==
    /\ pc = "remove_files"
    /\ \E f \in to_remove :
         LET p == join(d, f)
             hit == RemoveTargets(p)
         IN  /\ to_remove' = to_remove \ {f}
             /\ files' = files \ hit
             /\ links' = {l \in links : l.path \notin hit}
             /\ pc' = IF hit = {} THEN "raised" ELSE pc
             /\ exc' = IF hit = {} THEN RemoveError(p) ELSE exc
    /\ UNCHANGED <<table, dirs, fsCaseSensitive, fsNormSensitive,
                   tmpCaseSensitive, clean, cache,
                   db_d, i, db_l, db_set, dir_set, db_not_dir, dir_not_db, out,
                   todo>>

(***************************************************************************)
(* remove_empty_dirs.                                                      *)
(***************************************************************************)
\* os.walk(top, topdown=False): the directories it visits
WalkRoots(top) == {top} \cup {x \in dirs : Below(x, top)}

\* the dirnames os.walk reports for root: directories and links to directories
Dirnames(root) ==
    {basename(e) : e \in {x \in dirs : dirname(x) = root}
                          \cup {l.path : l \in {x \in links :
                                   dirname(x.path) = root /\ IsDirLink(x)}}}

\* every <<root, dirname>> the two loops of lines 81-82 go through
WalkPairs(top) ==
    UNION {{<<r, n>> : n \in Dirnames(r)} : r \in WalkRoots(top)}

\* MayVisit of a top-down walk: a root is reported before the directories below it
MayVisit_TopDown(pair, left) == \A other \in left : ~Below(pair[1], other[1])

\* topdown=False: a root is reported after every directory below it
MayVisit(pair, left) == \A other \in left : ~Below(other[1], pair[1])

\* line 110: the walk starts once the for loop of line 108 has ended
StartRemoveEmptyDirs ==
    /\ pc = "remove_files"
    /\ to_remove = {}
    /\ todo' = WalkPairs(d)
    /\ pc' = "remove_empty_dirs"
    /\ UNCHANGED <<table, files, dirs, links, fsCaseSensitive, fsNormSensitive,
                   tmpCaseSensitive,
                   clean, cache, db_d, i, db_l, db_set, dir_set, db_not_dir,
                   dir_not_db, out, to_remove, exc>>

\* lines 82-86, one dirname: OSError is swallowed
Rmdir ==
    /\ pc = "remove_empty_dirs"
    /\ \E pair \in todo :
         /\ MayVisit(pair, todo)
         /\ dirs' = dirs \ RmdirTargets(realpath(join(pair[1], pair[2])))
         /\ todo' = todo \ {pair}
    /\ UNCHANGED <<table, files, links, fsCaseSensitive, fsNormSensitive,
                   tmpCaseSensitive, clean,
                   pc, cache, db_d, i, db_l, db_set, dir_set, db_not_dir,
                   dir_not_db, out, to_remove, exc>>

\* line 111, after the walk: main returns
PrintRemoved ==
    /\ pc = "remove_empty_dirs"
    /\ todo = {}
    /\ out' = Append(out, Header("removed", Cardinality(dir_not_db), 0))
    /\ pc' = "done"
    /\ UNCHANGED <<table, files, dirs, links, fsCaseSensitive, fsNormSensitive,
                   tmpCaseSensitive,
                   clean, cache, db_d, i, db_l, db_set, dir_set, db_not_dir,
                   dir_not_db, to_remove, todo, exc>>

Next ==
    \/ DbQuery
    \/ DbRow
    \/ DbReturn
    \/ GetDirSet
    \/ Difference
    \/ PrintDbNotDir
    \/ PrintDirNotDb
    \/ SkipClean
    \/ StartClean
    \/ RemoveFile
    \/ StartRemoveEmptyDirs
    \/ Rmdir
    \/ PrintRemoved

Spec == Init /\ [][Next]_vars


(***************************************************************************)
(* Properties.                                                             *)
(***************************************************************************)
\* get_db_set raised: the loop over db_d was cut short
DbSetRaised == pc = "raised" /\ i <= Len(db_d)

\* get_db_set has returned db_set
DbSetReturned == pc \notin {"get_db_set", "db_loop"} /\ ~DbSetRaised

\* both differences are taken and nothing is deleted yet
ReportReady == pc \in {"print_db_not_dir", "print_dir_not_db", "if_clean"}

\* both differences are taken
Compared ==
    \/ ReportReady
    \/ pc \in {"remove_files", "remove_empty_dirs", "done"}
    \/ (pc = "raised" /\ ~DbSetRaised)

\* the rows of the table whose path is a str
StrRows == {n \in 1..Len(table) : table[n].path.kind = "str"}

\* the key get_db_set derives from row n (a str row) when it keeps it
KeyOfRow(n) == DbKey(table[n].path.val, tmpCaseSensitive)

\* the supported files of the zotfile directory
DocFiles == {f \in WalkFiles(d) : RuleMatch(basename(f))}

\* the whole report, as main prints it
Report ==
    Section("db_not_dir", db_not_dir, db_set)
        \o Section("dir_not_db", dir_not_db, dir_set)

\* C1: every element of the db_set get_db_set returns is derived from a row
\* whose contentType is application/pdf or application/djvu, whatever the
\* row's linkMode: a row of another content type puts nothing into it.
C1_OnlyDocumentContentTypes ==
    DbSetReturned =>
        \A k \in db_set :
            \E n \in StrRows :
                table[n].contentType \in DocTypes /\ KeyOfRow(n) = k

\* C2: a row whose processing raises is skipped silently: get_db_set raises
\* nothing and returns the keys of all the other rows that pass the extension
\* test, those before and those after the failing row.
C2_ErrorRowSkipped ==
    /\ ~DbSetRaised
    /\ DbSetReturned =>
           db_set = {DbKey(db_d[n].val, tmpCaseSensitive) :
                        n \in {m \in 1..Len(db_d) :
                                  db_d[m].kind = "str" /\ HasDocExt(db_d[m].val)}}

\* an absolute path, without the marker, that lies outside d
OutsidePath(p) ==
    /\ Count(p, Marker) = 0
    /\ StartsWith(p, <<"/">>)
    /\ ~Below(abspath(p), d)

\* C3: a row whose path is absolute and lies outside the zotfile directory puts
\* nothing into db_set, and so is never listed in db_not_dir.
C3_OutsideNotListed ==
    DbSetReturned =>
        \A n \in StrRows :
            OutsidePath(table[n].path.val) =>
                KeyOfRow(n) \notin db_set \cup db_not_dir

\* C4: a file of the zotfile directory recorded in the database under exactly
\* its relative path gets the same key from get_db_set and from get_dir_set,
\* and is in neither db_not_dir nor dir_not_db, whatever the case sensitivity
\* (stated for the runs in which the probe answers for the tree's file system).
C4_SamePathSameKey ==
    (Compared /\ tmpCaseSensitive = fsCaseSensitive) =>
        \A f \in DocFiles : \A n \in 1..Len(db_d) :
            ( /\ db_d[n].kind = "str"
              /\ HasDocExt(db_d[n].val)
              /\ Relative(db_d[n].val) = relpath(f, d) )
            => /\ DbKey(db_d[n].val, tmpCaseSensitive) = DirKey(f)
               /\ DirKey(f) \notin db_not_dir \cup dir_not_db

\* C5: db_not_dir = db_set - dir_set and dir_not_db = dir_set - db_set: the two
\* are disjoint from each other and from the intersection, and each set is its
\* difference together with the intersection.
C5_ExactDifferences ==
    Compared =>
        LET both == db_set \cap dir_set
        IN  /\ db_not_dir \cap dir_not_db = {}
            /\ db_not_dir \cap both = {}
            /\ dir_not_db \cap both = {}
            /\ db_set = both \cup db_not_dir
            /\ dir_set = both \cup dir_not_db

C5_Witness ==
    /\ Compared
    /\ db_not_dir # {}
    /\ dir_not_db # {}
    /\ db_set \cap dir_set # {}

\* the filter of the Database Extractor, as the code applies it
FilteredOut(r) ==
    \/ ~(r.linkMode = 2 \/ (r.linkMode = 3 /\ r.contentType \in DocTypes))
    \/ ~HasDocExt(r.path.val)

\* the keys under which the report could list the path of row n (a str row)
RecordKeys(n) ==
    {KeyOfRow(n), DirKey(join(d, Relative(table[n].path.val)))}

\* the keys of the rows that are not filtered out
KeptKeys == {KeyOfRow(n) : n \in {m \in StrRows : ~FilteredOut(table[m])}}

\* C6, as claimed: the path of a filtered-out row is in neither db_not_dir nor
\* dir_not_db, whether or not a file with that path exists on disk.
C6_FilteredNeverReported ==
    ReportReady =>
        \A n \in StrRows :
            FilteredOut(table[n]) =>
                RecordKeys(n) \cap (db_not_dir \cup dir_not_db) = {}

\* C6, amended: a filtered-out row adds nothing to db_set. Its path is in
\* db_not_dir only if a row that is not filtered out has the same key; it is in
\* dir_not_db exactly when a supported file on disk has that key and no row that
\* is not filtered out has it; a row filtered out by its extension is on
\* neither side.
C6_FilteredAddsNothing ==
    ReportReady =>
        \A n \in StrRows :
            FilteredOut(table[n]) =>
                /\ \A k \in RecordKeys(n) :
                      /\ k \in db_not_dir => k \in KeptKeys
                      /\ k \in dir_not_db <=>
                             (k \in {DirKey(f) : f \in DocFiles} /\ k \notin KeptKeys)
                /\ ~HasDocExt(table[n].path.val) =>
                      RecordKeys(n) \cap (db_not_dir \cup dir_not_db) = {}

C6_Witness ==
    /\ ReportReady
    /\ \E n \in StrRows :
          /\ FilteredOut(table[n])
          /\ RecordKeys(n) \cap dir_not_db # {}
          /\ RecordKeys(n) \cap db_not_dir = {}

\* C7: once a run with clean set and dir_not_db not empty has completed, no file
\* from which get_dir_set derived a key of dir_not_db exists any more.
C7_ListedFilesDeleted ==
    (pc = "done" /\ clean /\ dir_not_db # {}) =>
        \A f \in DocFiles : DirKey(f) \notin dir_not_db

\* remove_empty_dirs has run to its end
WalkDone ==
    \/ pc = "remove_empty_dirs" /\ todo = {}
    \/ pc = "done" /\ clean /\ dir_not_db # {}

\* the files and symbolic links strictly below directory p
EntriesBelow(p) == {e \in files \cup {l.path : l \in links} : Below(e, p)}

\* C8: after remove_empty_dirs, a directory strictly below d exists if and only
\* if its subtree holds a file (a regular file or a symbolic link): no remaining
\* directory has an empty subtree, nested chains included, and the directories
\* above every remaining file are all still there.
C8_ExactlyEmptyDirsRemoved ==
    WalkDone =>
        /\ \A x \in dirs : Below(x, d) => EntriesBelow(x) # {}
        /\ \A e \in EntriesBelow(d) : Ancestors(e) \subseteq dirs

C8_Witness ==
    /\ WalkDone
    /\ DirKey(F_cez) \in dir_not_db
    /\ F_cez \notin files
    /\ D_ce \notin dirs
    /\ D_c \notin dirs
    /\ D_k \in dirs

C10_OnlyInsideManagedDir ==
    /\ {d, D_o, D_om} \subseteq dirs
    /\ F_ox \in files

====
